---- MODULE Spec2Model ----
(***************************************************************************)
(* rtu-sim: the subroutine controller (src/src/test_cases.rs), its         *)
(* scenario driver (src/src/main.rs) and the addressable store with its    *)
(* request handler (src/src/mb_stuff.rs).                                  *)
(*                                                                         *)
(* Time is an integer count of milliseconds.  A transport round trip takes *)
(* one of Latencies milliseconds, a sleep takes its duration plus one of   *)
(* Latencies; the remote device is a timed automaton that the passing of   *)
(* time advances (Evolve).                                                 *)
(***************************************************************************)
EXTENDS Integers, Sequences, FiniteSets, TLC

\* ------------------------------------------------------------ constants
StartTimeout == 1000
StopTimeout == 60000
GraceTimeout == 1000
PollSleep == 10
SettleDelay == 100
OutOfBoundsIndex == 65535
ENABLE_COIL_OFFSET == 8
RUNNING_COIL_OFFSET == 9
INDEX_HREG_OFFSET == 8
\* The addresses the controller's transport helpers use.
Helper_ENABLE_COIL_OFFSET == 3
RUNNING_DISCRETE_OFFSET == 4
Helper_INDEX_HREG_OFFSET == 0
\* The increasing-delay sweep, in microseconds: the first increment, its
\* growth factor and the value from which it stops growing.
FirstIncrement == 1
IncrementFactor == 4
MaxIncrement == 2000000

\* ---------------------------------------------------------------- bounds
\* A round trip (and a sleep's overshoot) lasts 0, 5, .. 5 * MaxLatSteps ms.
MaxLatSteps == 1
\* Transport failures injected per behaviour.
MaxFaults == 1
\* The longest range (count, or value-list length) of a store request.
MaxCount == 3

MaxLatency == 5 * MaxLatSteps

\* ---------------------------------------------------------------- inputs
\* The remote devices: kind, delay from the rising edge of enable to
\* running=true, run time, delay from the falling edge of enable to
\* running=false.
\*   edge        runs once per rising edge of enable, stops when enable falls
\*   level       as edge, but runs again while enable is still true at the end
\*   ignoreStop  runs once per rising edge and ignores the falling edge
\*   dead        never runs
\* jitter: whether round trips to the device and sleeps vary in length (by one
\* of 0, 5, .. MaxLatency ms) or always take their nominal time.
Devices ==
  { [kind |-> "edge",       startDelay |-> 5,  runTime |-> 200,   stopDelay |-> 5, jitter |-> TRUE],
    [kind |-> "edge",       startDelay |-> 5,  runTime |-> 50,    stopDelay |-> 5, jitter |-> TRUE],
    [kind |-> "edge",       startDelay |-> 5,  runTime |-> 5,     stopDelay |-> 5, jitter |-> TRUE],
    [kind |-> "edge",       startDelay |-> 5,  runTime |-> 70000, stopDelay |-> 5, jitter |-> FALSE],
    [kind |-> "level",      startDelay |-> 40, runTime |-> 200,   stopDelay |-> 5, jitter |-> TRUE],
    [kind |-> "ignoreStop", startDelay |-> 5,  runTime |-> 3000,  stopDelay |-> 5, jitter |-> FALSE],
    [kind |-> "edge",       startDelay |-> 980, runTime |-> 50,   stopDelay |-> 5, jitter |-> TRUE],
    [kind |-> "dead",       startDelay |-> 5,  runTime |-> 5,     stopDelay |-> 5, jitter |-> TRUE] }

\* The device of the scenarios' description: running rises 5 ms after enable
\* is asserted, falls 200 ms later and stays false.
ScenarioDevice ==
  [kind |-> "edge", startDelay |-> 5, runTime |-> 200, stopDelay |-> 5, jitter |-> TRUE]

\* The cancellation delays (ms) of the early-stop scenarios.
Delays == {0, 1, 5, 50, 200, 205, 210, 215, 220, 1000, 1005, 60000, 60010, 65000}

Indices == {3}

Phases == {"start", "stop", "grace"}

VARIABLES
  now,        \* the monotonic clock: ms since the enable=true write returned
              \* (0 until then; the code reads the clock only afterwards)
  pc,         \* the driver's and controller's position
  test,       \* the scenario selected (TestCases)
  idx,        \* sr_single*'s idx
  delay,      \* sr_single_early_stop's early_stop_duration, ms
  end_time,   \* sr_single_early_stop's end_time
  enable,     \* the enable coil
  indexReg,   \* the subroutine index register
  dev,        \* the device's parameters
  ds,         \* the device's state
  w,          \* wait_for_running's arguments and start_time
  result,     \* what the controller returned
  faults,     \* transport failures so far
  hist,       \* per wait phase: how it was entered and how it returned
  lastObs,    \* the controller's most recent observation of running
  cleanupWrites, \* enable=false writes of the driver's error path
  test_success,  \* the driver's test_success
  sweepDelay,    \* the sweep's delay, microseconds
  increment,     \* the sweep's increment, microseconds
  outcomes,      \* the results of the sweep's invocations so far
  coils,             \* SharedModbusState.coils: address -> bool
  holding_registers, \* SharedModbusState.holding_registers: address -> u16
  coilsPoisoned,     \* the coils mutex is poisoned
  regsPoisoned,      \* the holding_registers mutex is poisoned
  build,             \* whether the build checks integer overflow
  req,               \* the last request
  resp,              \* what the last request returned
  prevCoils,         \* coils before the last request
  prevRegs,          \* holding_registers before the last request
  thr,               \* per thread: the store call it is in, and where
  holder,            \* per namespace: the thread holding its mutex, or "free"
  committed          \* per namespace: its contents when the last write call returned

sweepVars == <<sweepDelay, increment, outcomes>>

ctlVars == <<now, pc, test, idx, delay, end_time, enable, indexReg, dev, ds, w,
             result, faults, hist, lastObs, cleanupWrites, test_success, sweepVars>>

concVars == <<thr, holder, committed>>

storeVars == <<coils, holding_registers, coilsPoisoned, regsPoisoned, build,
               req, resp, prevCoils, prevRegs, concVars>>

vars == <<ctlVars, storeVars>>

\* How long a round trip, or a sleep's overshoot, may last.
Latencies == IF dev.jitter THEN {5 * k : k \in 0..MaxLatSteps} ELSE {0}

Min(a, b) == IF a < b THEN a ELSE b

\* Instant - Instant saturates at zero.
SatSub(a, b) == IF a > b THEN a - b ELSE 0

\* ---------------------------------------------------------------- device
DevIdle == [ph |-> "idle", at |-> 0, latched |-> FALSE]

Running(s) == s.ph = "running"

\* The device's state at time t, enable having been en since its last change.
RECURSIVE Evolve(_, _, _)
Evolve(s, t, en) ==
  IF s.ph = "starting" /\ s.at <= t
  THEN Evolve([ph |-> "running", at |-> s.at + dev.runTime, latched |-> FALSE], t, en)
  ELSE IF s.ph = "running" /\ s.at <= t
  THEN IF dev.kind = "level" /\ en
       THEN Evolve([ph |-> "starting", at |-> s.at + dev.startDelay, latched |-> TRUE], t, en)
       ELSE DevIdle
  ELSE s

\* The device's reaction to enable changing from old to new at time t.
OnEnable(s, old, new, t) ==
  IF new /\ ~old
  THEN IF s.ph = "idle" /\ dev.kind # "dead"
       THEN [ph |-> "starting", at |-> t + dev.startDelay, latched |-> FALSE]
       ELSE s
  ELSE IF ~new /\ old /\ dev.kind \in {"edge", "level"}
  THEN IF s.ph = "starting"
       THEN IF s.latched THEN s ELSE DevIdle
       ELSE IF s.ph = "running"
       THEN [s EXCEPT !.at = Min(s.at, t + dev.stopDelay)]
       ELSE s
  ELSE s

\* ------------------------------------------------------------- controller
Early == test \in {"SrEarlyStopWithDelay", "SrEarlyStopAllDelays"}

NoWait == [phase |-> "none", target |-> FALSE, timeout |-> 0, start |-> 0,
           bound |-> "own", readAt |-> -1, hit |-> FALSE]

NoHist == [n |-> 0, res |-> "none", bound |-> "own", target |-> FALSE,
           timeout |-> 0, start |-> 0, ret |-> 0, readAt |-> -1, hit |-> FALSE]

\* wait_for_running(ctx, target, timeout) entered at time t.
EnterWait(phase, target, timeout, bound, t) ==
  /\ w' = [phase |-> phase, target |-> target, timeout |-> timeout, start |-> t,
           bound |-> bound, readAt |-> -1, hit |-> FALSE]
  /\ pc' = "wCheck"

\* EnterStartWait comparing with <= instead of <.
EnterStartWait_OrEqual(t, et) ==
  IF ~Early
  THEN EnterWait("start", TRUE, StartTimeout, "own", t)
  ELSE IF t + StartTimeout <= et
       THEN EnterWait("start", TRUE, StartTimeout, "own", t)
       ELSE EnterWait("start", TRUE, SatSub(et, t), "cancel", t)

\* The deadline race before the start-wait, at time t.
EnterStartWait(t, et) ==
  IF ~Early
  THEN EnterWait("start", TRUE, StartTimeout, "own", t)
  ELSE IF t + StartTimeout < et
       THEN EnterWait("start", TRUE, StartTimeout, "own", t)
       ELSE EnterWait("start", TRUE, SatSub(et, t), "cancel", t)

\* EnterStopWait without the race: the stop-wait always has its own horizon.
EnterStopWait_NoRace(t) ==
  EnterWait("stop", FALSE, StopTimeout, "own", t)

\* EnterStopWait with the operands of end_time - now swapped.
EnterStopWait_Swapped(t) ==
  IF ~Early
  THEN EnterWait("stop", FALSE, StopTimeout, "own", t)
  ELSE IF t + StopTimeout < end_time
       THEN EnterWait("stop", FALSE, StopTimeout, "own", t)
       ELSE EnterWait("stop", FALSE, SatSub(t, end_time), "cancel", t)

\* The deadline race before the stop-wait, at time t.
EnterStopWait(t) ==
  IF ~Early
  THEN EnterWait("stop", FALSE, StopTimeout, "own", t)
  ELSE IF t + StopTimeout < end_time
       THEN EnterWait("stop", FALSE, StopTimeout, "own", t)
       ELSE EnterWait("stop", FALSE, SatSub(end_time, t), "cancel", t)

Returned(r) == result' = r /\ pc' = "returned" /\ w' = NoWait

\* WaitReturns taking every Timeout for the cancellation deadline.
WaitReturns_AlwaysCancel(res, t, readAt, hit) ==
  /\ hist' = [hist EXCEPT ![w.phase] =
                [n |-> @.n + 1, res |-> res, bound |-> w.bound, target |-> w.target,
                 timeout |-> w.timeout, start |-> w.start, ret |-> t,
                 readAt |-> readAt, hit |-> hit]]
  /\ IF w.phase = "start"
     THEN IF res = "Success"
          THEN EnterStopWait(t) /\ UNCHANGED result
          ELSE pc' = "esWrite" /\ w' = NoWait /\ UNCHANGED result
     ELSE IF w.phase = "stop"
     THEN IF res = "Success"
          THEN pc' = "ackWrite" /\ w' = NoWait /\ UNCHANGED result
          ELSE pc' = "esWrite" /\ w' = NoWait /\ UNCHANGED result
     ELSE IF res = "Success"
          THEN Returned("Success")
          ELSE Returned("ErrGrace")

\* WaitReturns with execute_early_stop returning Ok on a grace Timeout.
WaitReturns_GraceIgnored(res, t, readAt, hit) ==
  /\ hist' = [hist EXCEPT ![w.phase] =
                [n |-> @.n + 1, res |-> res, bound |-> w.bound, target |-> w.target,
                 timeout |-> w.timeout, start |-> w.start, ret |-> t,
                 readAt |-> readAt, hit |-> hit]]
  /\ IF w.phase = "start"
     THEN IF res = "Success"
          THEN EnterStopWait(t) /\ UNCHANGED result
          ELSE IF w.bound = "own"
          THEN Returned("ErrTimeoutStart")
          ELSE pc' = "esWrite" /\ w' = NoWait /\ UNCHANGED result
     ELSE IF w.phase = "stop"
     THEN IF res = "Success"
          THEN pc' = "ackWrite" /\ w' = NoWait /\ UNCHANGED result
          ELSE IF w.bound = "own"
          THEN Returned("ErrTimeoutStop")
          ELSE pc' = "esWrite" /\ w' = NoWait /\ UNCHANGED result
     ELSE Returned("Success")

\* wait_for_running returns res at time t, its last read begun at readAt:
\* the caller's match on it.
WaitReturns(res, t, readAt, hit) ==
  /\ hist' = [hist EXCEPT ![w.phase] =
                [n |-> @.n + 1, res |-> res, bound |-> w.bound, target |-> w.target,
                 timeout |-> w.timeout, start |-> w.start, ret |-> t,
                 readAt |-> readAt, hit |-> hit]]
  /\ IF w.phase = "start"
     THEN IF res = "Success"
          THEN EnterStopWait(t) /\ UNCHANGED result
          ELSE IF w.bound = "own"
          THEN Returned("ErrTimeoutStart")
          ELSE pc' = "esWrite" /\ w' = NoWait /\ UNCHANGED result
     ELSE IF w.phase = "stop"
     THEN IF res = "Success"
          THEN pc' = "ackWrite" /\ w' = NoWait /\ UNCHANGED result
          ELSE IF w.bound = "own"
          THEN Returned("ErrTimeoutStop")
          ELSE pc' = "esWrite" /\ w' = NoWait /\ UNCHANGED result
     ELSE IF res = "Success"
          THEN Returned("Success")
          ELSE Returned("ErrGrace")

\* The scenario driver selects a test case and its parameters.
Select ==
  /\ pc = "menu"
  /\ \E t \in {"SrSingle", "SrOutOfBounds", "SrEarlyStopWithDelay"} :
       /\ test' = t
       /\ \E i \in Indices :
            idx' = IF t = "SrOutOfBounds" THEN OutOfBoundsIndex ELSE i
       /\ \E d \in Delays :
            delay' = IF t = "SrEarlyStopWithDelay" THEN d ELSE 0
  /\ pc' = "writeIndex"
  /\ UNCHANGED <<storeVars, sweepVars>>
  /\ UNCHANGED <<now, end_time, enable, indexReg, dev, ds, w, result, faults,
                 hist, lastObs, cleanupWrites, test_success>>

\* Fails with wait_for_running polling on after a failed observation.
Fails_Retried(d) ==
  /\ faults < MaxFaults
  /\ faults' = faults + 1
  /\ now' = now + d
  /\ ds' = Evolve(ds, now + d, enable)
  /\ IF pc = "wRead"
     THEN pc' = "wSleep" /\ UNCHANGED <<result, w>>
     ELSE Returned("ErrTransport")
  /\ UNCHANGED <<test, idx, delay, end_time, enable, indexReg, dev, hist,
                 lastObs, cleanupWrites, test_success>>

\* A transport call that took d ms fails: the `?` returns the error.
Fails(d) ==
  /\ faults < MaxFaults
  /\ faults' = faults + 1
  /\ now' = now + d
  /\ ds' = Evolve(ds, now + d, enable)
  /\ Returned("ErrTransport")
  /\ UNCHANGED <<test, idx, delay, end_time, enable, indexReg, dev, hist,
                 lastObs, cleanupWrites, test_success>>

\* WriteIndex going on to the enable write when the index write failed.
WriteIndex_Unchecked ==
  /\ pc = "writeIndex"
  /\ UNCHANGED <<storeVars, sweepVars>>
  /\ pc' = "writeEnable"
  /\ \/ faults < MaxFaults /\ faults' = faults + 1 /\ UNCHANGED indexReg
     \/ indexReg' = idx /\ UNCHANGED faults
  /\ UNCHANGED <<now, ds, test, idx, delay, end_time, enable, dev, w, result,
                 hist, lastObs, cleanupWrites, test_success>>

\* write_index_hreg(ctx, idx).await?
WriteIndex ==
  /\ pc = "writeIndex"
  /\ UNCHANGED <<storeVars, sweepVars>>
  /\ \/ Fails(0)
     \/ /\ indexReg' = idx
        /\ pc' = "writeEnable"
        /\ UNCHANGED <<now, ds>>
        /\ UNCHANGED <<test, idx, delay, end_time, enable, dev, w, result,
                       faults, hist, lastObs, cleanupWrites, test_success>>

\* write_en_coil(ctx, true).await?; end_time; the first deadline race.
WriteEnable ==
  /\ pc = "writeEnable"
  /\ UNCHANGED <<storeVars, sweepVars>>
  /\ \/ Fails(0)
     \/ /\ enable' = TRUE
        /\ ds' = OnEnable(ds, enable, TRUE, now)
        /\ end_time' = IF Early THEN now + delay ELSE 0
        /\ EnterStartWait(now, now + delay)
        /\ UNCHANGED <<now, test, idx, delay, indexReg, dev, result, faults,
                       hist, lastObs, cleanupWrites, test_success>>

\* DeadlinePassed anticipating the sleep that would follow.
DeadlinePassed_Anticipated(elapsed, timeout) == elapsed + PollSleep > timeout

\* DeadlinePassed allowing for the sleep that follows.
DeadlinePassed_Late(elapsed, timeout) == elapsed > timeout + PollSleep

\* start_time.elapsed() > timeout
DeadlinePassed(elapsed, timeout) == elapsed > timeout

\* Matches ignoring the target.
Matches_NoTarget(actual_state, target_state) == actual_state

\* actual_state == target_state
Matches(actual_state, target_state) == actual_state = target_state

\* if start_time.elapsed() > timeout { return Ok(Timeout) }
WaitCheck ==
  /\ pc = "wCheck"
  /\ UNCHANGED <<storeVars, sweepVars>>
  /\ IF DeadlinePassed(now - w.start, w.timeout)
     THEN WaitReturns("Timeout", now, w.readAt, w.hit)
     ELSE pc' = "wRead" /\ UNCHANGED <<w, result, hist>>
  /\ UNCHANGED <<now, test, idx, delay, end_time, enable, indexReg, dev, ds,
                 faults, lastObs, cleanupWrites, test_success>>

\* match read_running_input(ctx).await
WaitRead ==
  /\ pc = "wRead"
  /\ UNCHANGED <<storeVars, sweepVars>>
  /\ \E d \in Latencies :
       \/ Fails(d)
       \/ /\ now' = now + d
          /\ ds' = Evolve(ds, now + d, enable)
          /\ lastObs' = Running(ds')
          /\ IF Matches(Running(ds'), w.target)
             THEN WaitReturns("Success", now + d, now, Running(ds') = w.target)
             ELSE /\ pc' = "wSleep"
                  /\ w' = [w EXCEPT !.readAt = now,
                                    !.hit = @ \/ (Running(ds') = w.target)]
                  /\ UNCHANGED <<result, hist>>
          /\ UNCHANGED <<test, idx, delay, end_time, enable, indexReg, dev,
                         faults, cleanupWrites, test_success>>

\* WaitSleep sleeping ten times as long.
WaitSleep_Long ==
  /\ pc = "wSleep"
  /\ UNCHANGED <<storeVars, sweepVars>>
  /\ \E j \in Latencies :
       /\ now' = now + 10 * PollSleep + j
       /\ ds' = Evolve(ds, now + 10 * PollSleep + j, enable)
  /\ pc' = "wCheck"
  /\ UNCHANGED <<test, idx, delay, end_time, enable, indexReg, dev, w, result,
                 faults, hist, lastObs, cleanupWrites, test_success>>

\* time::sleep(Duration::from_millis(10)).await
WaitSleep ==
  /\ pc = "wSleep"
  /\ UNCHANGED <<storeVars, sweepVars>>
  /\ \E j \in Latencies :
       /\ now' = now + PollSleep + j
       /\ ds' = Evolve(ds, now + PollSleep + j, enable)
  /\ pc' = "wCheck"
  /\ UNCHANGED <<test, idx, delay, end_time, enable, indexReg, dev, w, result,
                 faults, hist, lastObs, cleanupWrites, test_success>>

\* execute_early_stop: write_en_coil(ctx, false).await?, then the grace wait.
EarlyStopWrite ==
  /\ pc = "esWrite"
  /\ UNCHANGED <<storeVars, sweepVars>>
  /\ \E d \in Latencies :
       \/ Fails(d)
       \/ /\ now' = now + d
          /\ enable' = FALSE
          /\ ds' = OnEnable(Evolve(ds, now + d, enable), enable, FALSE, now + d)
          /\ EnterWait("grace", FALSE, GraceTimeout, "own", now + d)
          /\ UNCHANGED <<test, idx, delay, end_time, indexReg, dev, result,
                         faults, hist, lastObs, cleanupWrites, test_success>>

\* AckWrite without the write.
AckWrite_Skipped ==
  /\ pc = "ackWrite"
  /\ UNCHANGED <<storeVars, sweepVars>>
  /\ pc' = "settle"
  /\ UNCHANGED <<now, ds, enable, test, idx, delay, end_time, indexReg, dev, w,
                 result, faults, hist, lastObs, cleanupWrites, test_success>>

\* debug!("Motion complete"); write_en_coil(ctx, false).await?
AckWrite ==
  /\ pc = "ackWrite"
  /\ UNCHANGED <<storeVars, sweepVars>>
  /\ \E d \in Latencies :
       \/ Fails(d)
       \/ /\ now' = now + d
          /\ enable' = FALSE
          /\ ds' = OnEnable(Evolve(ds, now + d, enable), enable, FALSE, now + d)
          /\ pc' = "settle"
          /\ UNCHANGED <<test, idx, delay, end_time, indexReg, dev, w, result,
                         faults, hist, lastObs, cleanupWrites, test_success>>

\* Settle without the sleep.
Settle_Skipped ==
  /\ pc = "settle"
  /\ UNCHANGED <<storeVars, sweepVars>>
  /\ pc' = "settleRead"
  /\ UNCHANGED <<now, ds, test, idx, delay, end_time, enable, indexReg, dev, w,
                 result, faults, hist, lastObs, cleanupWrites, test_success>>

\* time::sleep(Duration::from_millis(100)).await
Settle ==
  /\ pc = "settle"
  /\ UNCHANGED <<storeVars, sweepVars>>
  /\ \E j \in Latencies :
       /\ now' = now + SettleDelay + j
       /\ ds' = Evolve(ds, now + SettleDelay + j, enable)
  /\ pc' = "settleRead"
  /\ UNCHANGED <<test, idx, delay, end_time, enable, indexReg, dev, w, result,
                 faults, hist, lastObs, cleanupWrites, test_success>>

\* StillRunning negated.
StillRunning_Negated(actual_state) == ~actual_state

\* if read_running_input(ctx).await? { return Err(..) }
StillRunning(actual_state) == actual_state

\* if read_running_input(ctx).await? { return Err(..) }  Ok(..)
SettleRead ==
  /\ pc = "settleRead"
  /\ UNCHANGED <<storeVars, sweepVars>>
  /\ \E d \in Latencies :
       \/ Fails(d)
       \/ /\ now' = now + d
          /\ ds' = Evolve(ds, now + d, enable)
          /\ lastObs' = Running(ds')
          /\ IF StillRunning(Running(ds'))
             THEN Returned("ErrStillRunning")
             ELSE Returned(IF Early THEN "TooLate" ELSE "Ok")
          /\ UNCHANGED <<test, idx, delay, end_time, enable, indexReg, dev,
                         faults, hist, cleanupWrites, test_success>>

IsErr(r) == r \in {"ErrTransport", "ErrTimeoutStart", "ErrTimeoutStop",
                   "ErrGrace", "ErrStillRunning"}

\* Which scenarios force enable=false when the controller returned Err.
CleansUp(t) == t # "SrOutOfBounds"

\* CleanupCoil naming the running coil.
CleanupCoil_Running == RUNNING_COIL_OFFSET

\* The coil the driver's error path writes false:
\* shared_state.write_coil(ENABLE_COIL_OFFSET, false)
CleanupCoil == ENABLE_COIL_OFFSET

\* The device after the driver wrote false to the coil at addr.
CoilCleared(addr) ==
  IF addr = RUNNING_COIL_OFFSET
  THEN IF Running(ds) THEN DevIdle ELSE ds
  ELSE OnEnable(ds, enable, FALSE, now)

\* tui_thread's match on the controller's result.
Report ==
  /\ pc = "returned"
  /\ UNCHANGED <<storeVars, sweepVars>>
  /\ pc' = "done"
  /\ IF IsErr(result)
     THEN /\ test_success' = FALSE
          /\ IF CleansUp(test)
             THEN /\ enable' = (enable /\ CleanupCoil # ENABLE_COIL_OFFSET)
                  /\ ds' = CoilCleared(CleanupCoil)
                  /\ cleanupWrites' = cleanupWrites + 1
             ELSE UNCHANGED <<enable, ds, cleanupWrites>>
     ELSE UNCHANGED <<enable, ds, cleanupWrites, test_success>>
  /\ UNCHANGED <<now, test, idx, delay, end_time, indexReg, dev, w, result,
                 faults, hist, lastObs>>

\* ------------------------------------------------------------------ store
\* u16 arithmetic is modulo 2^16.
Modulus == 2 ^ 16

\* overflow-checks: on in a debug build, off in a release build.
Builds == {"debug", "release"}

Addrs == {ENABLE_COIL_OFFSET - 1, ENABLE_COIL_OFFSET, RUNNING_COIL_OFFSET,
          RUNNING_COIL_OFFSET + 1, Modulus - 1}

\* Range lengths: short ones, and one that from the last address wraps round
\* past the mapped addresses.
Counts == (0..MaxCount) \cup {RUNNING_COIL_OFFSET + 2}

RegValues == {0, Modulus - 1}

CoilLists == {[i \in 1..n |-> v] : n \in Counts, v \in BOOLEAN}
               \cup {[i \in 1..n |-> i % 2 = 1] : n \in Counts}

RegLists == {[i \in 1..n |-> v] : n \in Counts, v \in RegValues}
              \cup {[i \in 1..n |-> IF i % 2 = 1 THEN Modulus - 1 ELSE 0] : n \in Counts}

\* addr + i leaves the u16 range.
Overflows(addr, i) == addr + i >= Modulus

\* addr + i where it does not panic.
ElemAddr(addr, i) == (addr + i) % Modulus

\* coils.get(&addr), or false
read_coil(m, addr) == IF addr \in DOMAIN m THEN m[addr] ELSE FALSE

\* for i in 0..count { coil_addr = addr + i; result.push(..) }, from i on (acc: result)
RECURSIVE read_coils(_, _, _, _, _)
read_coils(m, addr, count, i, acc) ==
  IF i >= count
  THEN [panic |-> FALSE, values |-> acc]
  ELSE IF build = "debug" /\ Overflows(addr, i)
  THEN [panic |-> TRUE, values |-> acc]
  ELSE LET coil_addr == ElemAddr(addr, i) IN
       read_coils(m, addr, count, i + 1,
                  Append(acc, IF coil_addr \in DOMAIN m THEN m[coil_addr] ELSE FALSE))

\* if let Some(coil) = coils.get_mut(&addr) { *coil = value }
write_coil(m, addr, value) ==
  IF addr \in DOMAIN m THEN [m EXCEPT ![addr] = value] ELSE m

\* for (i, &value) in values.iter().enumerate() { .. }, from i on
RECURSIVE write_coils(_, _, _, _)
write_coils(m, addr, values, i) ==
  IF i >= Len(values)
  THEN [panic |-> FALSE, map |-> m]
  ELSE IF build = "debug" /\ Overflows(addr, i)
  THEN [panic |-> TRUE, map |-> m]
  ELSE LET coil_addr == ElemAddr(addr, i) IN
       write_coils(IF coil_addr \in DOMAIN m
                   THEN [m EXCEPT ![coil_addr] = values[i + 1]] ELSE m,
                   addr, values, i + 1)

\* for i in 0..count { reg_addr = addr + i; result.push(..) }, from i on (acc: result)
RECURSIVE read_holding_registers(_, _, _, _, _)
read_holding_registers(m, addr, count, i, acc) ==
  IF i >= count
  THEN [panic |-> FALSE, values |-> acc]
  ELSE IF build = "debug" /\ Overflows(addr, i)
  THEN [panic |-> TRUE, values |-> acc]
  ELSE LET reg_addr == ElemAddr(addr, i) IN
       read_holding_registers(m, addr, count, i + 1,
                  Append(acc, IF reg_addr \in DOMAIN m THEN m[reg_addr] ELSE 0))

\* if let Some(register) = registers.get_mut(&addr) { *register = value }
write_holding_register(m, addr, value) ==
  IF addr \in DOMAIN m THEN [m EXCEPT ![addr] = value] ELSE m

\* for (i, &value) in values.iter().enumerate() { .. }, from i on
RECURSIVE write_holding_registers(_, _, _, _)
write_holding_registers(m, addr, values, i) ==
  IF i >= Len(values)
  THEN [panic |-> FALSE, map |-> m]
  ELSE IF build = "debug" /\ Overflows(addr, i)
  THEN [panic |-> TRUE, map |-> m]
  ELSE LET reg_addr == ElemAddr(addr, i) IN
       write_holding_registers(IF reg_addr \in DOMAIN m
                               THEN [m EXCEPT ![reg_addr] = values[i + 1]] ELSE m,
                               addr, values, i + 1)

NoReq == [op |-> "none", addr |-> 0, cnt |-> 0, values |-> <<>>]

NoResp == [status |-> "none", kind |-> "none", addr |-> 0, cnt |-> 0, values |-> <<>>]

\* The call panicked: an overflowing addr + i, or lock().unwrap() on a
\* poisoned mutex.
Panicked == [status |-> "Panic", kind |-> "none", addr |-> 0, cnt |-> 0, values |-> <<>>]

\* Ok(Response::kind(..))
OkResponse(kind, addr, cnt, values) ==
  [status |-> "Ok", kind |-> kind, addr |-> addr, cnt |-> cnt, values |-> values]

Remember(op, addr, cnt, values) ==
  /\ req' = [op |-> op, addr |-> addr, cnt |-> cnt, values |-> values]
  /\ prevCoils' = coils
  /\ prevRegs' = holding_registers

\* The two paths that share the store: the server task serving requests and
\* the thread running the driver and the controller.
Threads == {"handler", "controller"}

Namespaces == {"coils", "regs"}

CoilCalls == {"read_coils", "write_coils", "write_coil"}

RegCalls == {"read_holding_registers", "write_holding_registers"}

NsOf(op) == IF op \in CoilCalls THEN "coils" ELSE "regs"

IsWrite(op) == op \in {"write_coils", "write_coil", "write_holding_registers"}

\* Ranges over both mapped coils, and over the end of the address space; a
\* register range over the unmapped and the mapped register.
ConcAddrs(op) ==
  IF op \in CoilCalls THEN {ENABLE_COIL_OFFSET, Modulus - 1}
  ELSE {INDEX_HREG_OFFSET - 1}

ConcLens(op) == IF op \in CoilCalls THEN {2, MaxCount} ELSE {2}

\* The argument lists of a call: a start address and the values written (a
\* read's values only give its count).
ConcArgs(op) ==
  IF op = "write_coil"
  THEN {[addr |-> a, values |-> <<v>>] : a \in {ENABLE_COIL_OFFSET}, v \in BOOLEAN}
  ELSE IF op = "write_coils"
  THEN {[addr |-> a, values |-> [k \in 1..n |-> v]] :
          a \in ConcAddrs(op), n \in ConcLens(op), v \in BOOLEAN}
  ELSE IF op = "write_holding_registers"
  THEN {[addr |-> a, values |-> [k \in 1..n |-> v]] :
          a \in ConcAddrs(op), n \in ConcLens(op), v \in RegValues}
  ELSE {[addr |-> a, values |-> [k \in 1..n |-> 0]] :
          a \in ConcAddrs(op), n \in ConcLens(op)}

IdleThread == [pc |-> "idle", op |-> "none", addr |-> 0, values |-> <<>>, i |-> 0,
               acc |-> <<>>, snap |-> <<>>, clean |-> TRUE, waited |-> FALSE]

Contents(ns) == IF ns = "coils" THEN coils ELSE holding_registers

Poisoned(ns) == IF ns = "coils" THEN coilsPoisoned ELSE regsPoisoned

\* SharedModbusState::new()
StoreInit ==
  /\ coils = (ENABLE_COIL_OFFSET :> FALSE) @@ (RUNNING_COIL_OFFSET :> FALSE)
  /\ holding_registers = (INDEX_HREG_OFFSET :> 0)
  /\ coilsPoisoned = FALSE
  /\ regsPoisoned = FALSE
  /\ build \in Builds
  /\ req = NoReq
  /\ resp = NoResp
  /\ prevCoils = coils
  /\ prevRegs = holding_registers
  /\ thr = [t \in Threads |-> IdleThread]
  /\ holder = [ns \in Namespaces |-> "free"]
  /\ committed = [ns \in Namespaces |-> IF ns = "coils" THEN coils ELSE holding_registers]

\* Request::ReadHoldingRegisters(addr, cnt)
CallReadHoldingRegisters ==
  /\ \E addr \in Addrs, cnt \in Counts :
       /\ Remember("ReadHoldingRegisters", addr, cnt, <<>>)
       /\ IF regsPoisoned
          THEN resp' = Panicked /\ UNCHANGED regsPoisoned
          ELSE LET r == read_holding_registers(holding_registers, addr, cnt, 0, <<>>) IN
               /\ regsPoisoned' = r.panic
               /\ resp' = IF r.panic THEN Panicked
                          ELSE OkResponse("ReadHoldingRegisters", 0, 0, r.values)
  /\ UNCHANGED <<coils, holding_registers, coilsPoisoned, build>>
  /\ UNCHANGED ctlVars
  /\ UNCHANGED concVars

\* Request::WriteMultipleRegisters(addr, values)
CallWriteMultipleRegisters ==
  /\ \E addr \in Addrs, values \in RegLists :
       /\ Remember("WriteMultipleRegisters", addr, Len(values), values)
       /\ IF regsPoisoned
          THEN resp' = Panicked /\ UNCHANGED <<regsPoisoned, holding_registers>>
          ELSE LET r == write_holding_registers(holding_registers, addr, values, 0) IN
               /\ holding_registers' = r.map
               /\ regsPoisoned' = r.panic
               /\ resp' = IF r.panic THEN Panicked
                          ELSE OkResponse("WriteMultipleRegisters", addr, Len(values), <<>>)
  /\ UNCHANGED <<coils, coilsPoisoned, build>>
  /\ UNCHANGED ctlVars
  /\ UNCHANGED concVars

\* Request::WriteSingleRegister(addr, value)
CallWriteSingleRegister ==
  /\ \E addr \in Addrs, value \in RegValues :
       /\ Remember("WriteSingleRegister", addr, 1, <<value>>)
       /\ IF regsPoisoned
          THEN resp' = Panicked /\ UNCHANGED holding_registers
          ELSE /\ holding_registers' = write_holding_register(holding_registers, addr, value)
               /\ resp' = OkResponse("WriteSingleRegister", addr, 1, <<value>>)
  /\ UNCHANGED <<coils, coilsPoisoned, regsPoisoned, build>>
  /\ UNCHANGED ctlVars
  /\ UNCHANGED concVars

\* Request::ReadCoils(addr, cnt)
CallReadCoils ==
  /\ \E addr \in Addrs, cnt \in Counts :
       /\ Remember("ReadCoils", addr, cnt, <<>>)
       /\ IF coilsPoisoned
          THEN resp' = Panicked /\ UNCHANGED coilsPoisoned
          ELSE LET r == read_coils(coils, addr, cnt, 0, <<>>) IN
               /\ coilsPoisoned' = r.panic
               /\ resp' = IF r.panic THEN Panicked
                          ELSE OkResponse("ReadCoils", 0, 0, r.values)
  /\ UNCHANGED <<coils, holding_registers, regsPoisoned, build>>
  /\ UNCHANGED ctlVars
  /\ UNCHANGED concVars

\* Request::WriteMultipleCoils(addr, values)
CallWriteMultipleCoils ==
  /\ \E addr \in Addrs, values \in CoilLists :
       /\ Remember("WriteMultipleCoils", addr, Len(values), values)
       /\ IF coilsPoisoned
          THEN resp' = Panicked /\ UNCHANGED <<coilsPoisoned, coils>>
          ELSE LET r == write_coils(coils, addr, values, 0) IN
               /\ coils' = r.map
               /\ coilsPoisoned' = r.panic
               /\ resp' = IF r.panic THEN Panicked
                          ELSE OkResponse("WriteMultipleCoils", addr, Len(values), <<>>)
  /\ UNCHANGED <<holding_registers, regsPoisoned, build>>
  /\ UNCHANGED ctlVars
  /\ UNCHANGED concVars

\* Request::WriteSingleCoil(addr, value)
CallWriteSingleCoil ==
  /\ \E addr \in Addrs, value \in BOOLEAN :
       /\ Remember("WriteSingleCoil", addr, 1, <<value>>)
       /\ IF coilsPoisoned
          THEN resp' = Panicked /\ UNCHANGED coils
          ELSE /\ coils' = write_coil(coils, addr, value)
               /\ resp' = OkResponse("WriteSingleCoil", addr, 1, <<value>>)
  /\ UNCHANGED <<holding_registers, coilsPoisoned, regsPoisoned, build>>
  /\ UNCHANGED ctlVars
  /\ UNCHANGED concVars

\* _ => Err(ExceptionCode::IllegalFunction)
CallOther ==
  /\ Remember("Other", 0, 0, <<>>)
  /\ resp' = [status |-> "Exception", kind |-> "IllegalFunction", addr |-> 0,
              cnt |-> 0, values |-> <<>>]
  /\ UNCHANGED <<coils, holding_registers, coilsPoisoned, regsPoisoned, build>>
  /\ UNCHANGED ctlVars
  /\ UNCHANGED concVars

\* shared_state.read_coil(addr), called on the store directly
ReadCoil ==
  /\ \E addr \in Addrs :
       /\ Remember("read_coil", addr, 1, <<>>)
       /\ resp' = IF coilsPoisoned THEN Panicked
                  ELSE OkResponse("read_coil", addr, 1, <<read_coil(coils, addr)>>)
  /\ UNCHANGED <<coils, holding_registers, coilsPoisoned, regsPoisoned, build>>
  /\ UNCHANGED ctlVars
  /\ UNCHANGED concVars

\* write_en_coil(ctx, state): ctx.write_single_coil(ENABLE_COIL_OFFSET, state),
\* answered by the handler's WriteSingleCoil arm.
write_en_coil ==
  /\ \E state \in BOOLEAN :
       /\ Remember("write_en_coil", Helper_ENABLE_COIL_OFFSET, 1, <<state>>)
       /\ IF coilsPoisoned
          THEN resp' = Panicked /\ UNCHANGED coils
          ELSE /\ coils' = write_coil(coils, Helper_ENABLE_COIL_OFFSET, state)
               /\ resp' = OkResponse("WriteSingleCoil", Helper_ENABLE_COIL_OFFSET, 1, <<state>>)
  /\ UNCHANGED <<holding_registers, coilsPoisoned, regsPoisoned, build>>
  /\ UNCHANGED ctlVars
  /\ UNCHANGED concVars

\* write_index_hreg(ctx, index): ctx.write_single_register(INDEX_HREG_OFFSET,
\* index), answered by the handler's WriteSingleRegister arm.
write_index_hreg ==
  /\ \E index \in Indices \cup {OutOfBoundsIndex} :
       /\ Remember("write_index_hreg", Helper_INDEX_HREG_OFFSET, 1, <<index>>)
       /\ IF regsPoisoned
          THEN resp' = Panicked /\ UNCHANGED holding_registers
          ELSE /\ holding_registers' =
                    write_holding_register(holding_registers, Helper_INDEX_HREG_OFFSET, index)
               /\ resp' = OkResponse("WriteSingleRegister", Helper_INDEX_HREG_OFFSET, 1, <<index>>)
  /\ UNCHANGED <<coils, coilsPoisoned, regsPoisoned, build>>
  /\ UNCHANGED ctlVars
  /\ UNCHANGED concVars

\* read_running_input(ctx): ctx.read_discrete_inputs(RUNNING_DISCRETE_OFFSET, 1),
\* a request the handler has no arm for.
read_running_input ==
  /\ Remember("read_running_input", RUNNING_DISCRETE_OFFSET, 1, <<>>)
  /\ resp' = [status |-> "Exception", kind |-> "IllegalFunction", addr |-> 0,
              cnt |-> 0, values |-> <<>>]
  /\ UNCHANGED <<coils, holding_registers, coilsPoisoned, regsPoisoned, build>>
  /\ UNCHANGED ctlVars
  /\ UNCHANGED concVars

\* A thread enters one of the store's calls.  A panic ends the driver's
\* thread; the server goes on serving requests after a panicked one.
Begin(t) ==
  /\ \/ thr[t].pc \in {"idle", "done"}
     \/ thr[t].pc = "panicked" /\ t = "handler"
  /\ \E op \in CoilCalls \cup RegCalls : \E args \in ConcArgs(op) :
       thr' = [thr EXCEPT ![t] = [IdleThread EXCEPT !.pc = "lock", !.op = op,
                                   !.addr = args.addr, !.values = args.values]]
  /\ UNCHANGED <<coils, holding_registers, coilsPoisoned, regsPoisoned, build,
                 req, resp, prevCoils, prevRegs, holder, committed>>
  /\ UNCHANGED ctlVars

\* self.coils.lock().unwrap() / self.holding_registers.lock().unwrap(): waits
\* while another thread holds the mutex, panics when it is poisoned.
Lock(t) ==
  LET s == thr[t]
      ns == NsOf(s.op)
  IN /\ s.pc = "lock"
     /\ holder[ns] = "free"
     /\ IF Poisoned(ns)
        THEN /\ thr' = [thr EXCEPT ![t].pc = "panicked"]
             /\ UNCHANGED holder
        ELSE /\ holder' = [holder EXCEPT ![ns] = t]
             /\ thr' = [thr EXCEPT ![t] =
                          IF s.i = 0
                          THEN [s EXCEPT !.pc = "loop", !.snap = Contents(ns),
                                         !.clean = (Contents(ns) = committed[ns])]
                          ELSE [s EXCEPT !.pc = "loop"]]
     /\ UNCHANGED <<coils, holding_registers, coilsPoisoned, regsPoisoned, build,
                    req, resp, prevCoils, prevRegs, committed>>
     /\ UNCHANGED ctlVars

\* GuardDropped never releasing the mutex.
GuardDropped_Never(i, n) == FALSE

\* GuardDropped releasing the mutex after every element.
GuardDropped_EachElement(i, n) == TRUE

\* The MutexGuard taken before the loop is dropped when the call returns:
\* after element i - 1 of n only when it was the last.
GuardDropped(i, n) == i >= n

\* One iteration of the call's loop, the mutex held.
Step(t) ==
  LET s == thr[t]
      ns == NsOf(s.op)
      n == Len(s.values)
      u == CHOOSE x \in Threads : x # t
  IN /\ s.pc = "loop"
     /\ holder[ns] = t
     /\ s.i < n
     /\ IF build = "debug" /\ Overflows(s.addr, s.i)
        THEN /\ thr' = [thr EXCEPT ![t].pc = "panicked"]
             /\ holder' = [holder EXCEPT ![ns] = "free"]
             /\ coilsPoisoned' = (coilsPoisoned \/ ns = "coils")
             /\ regsPoisoned' = (regsPoisoned \/ ns = "regs")
             /\ UNCHANGED <<coils, holding_registers, committed>>
        ELSE LET a == ElemAddr(s.addr, s.i)
                 m == Contents(ns)
                 m2 == IF IsWrite(s.op) /\ a \in DOMAIN m
                       THEN [m EXCEPT ![a] = s.values[s.i + 1]] ELSE m
                 acc2 == IF IsWrite(s.op) THEN s.acc
                         ELSE Append(s.acc, IF a \in DOMAIN m THEN m[a]
                                            ELSE IF ns = "coils" THEN FALSE ELSE 0)
                 fin == s.i + 1 >= n
                 drop == GuardDropped(s.i + 1, n)
             IN /\ coils' = IF ns = "coils" THEN m2 ELSE coils
                /\ holding_registers' = IF ns = "regs" THEN m2 ELSE holding_registers
                /\ holder' = IF drop THEN [holder EXCEPT ![ns] = "free"] ELSE holder
                /\ committed' = IF fin /\ IsWrite(s.op)
                                THEN [committed EXCEPT ![ns] = m2] ELSE committed
                /\ thr' = [thr EXCEPT
                            ![t] = [s EXCEPT !.i = s.i + 1, !.acc = acc2,
                                             !.pc = IF fin THEN "done"
                                                    ELSE IF drop THEN "lock" ELSE "loop"],
                            ![u] = IF thr[u].pc = "lock" /\ NsOf(thr[u].op) = ns
                                   THEN [thr[u] EXCEPT !.waited = TRUE] ELSE thr[u]]
                /\ UNCHANGED <<coilsPoisoned, regsPoisoned>>
     /\ UNCHANGED <<build, req, resp, prevCoils, prevRegs>>
     /\ UNCHANGED ctlVars

\* if increment < max_inc { increment *= 4; }
NextIncrement(inc) == IF inc < MaxIncrement THEN inc * IncrementFactor ELSE inc

\* Millis taking the sweep's microseconds for milliseconds.
Millis_AsMillis(us) == us

\* Duration::from_micros: the delay on the controller's clock.  The clock is
\* read in whole milliseconds, so elapsed > timeout is decided by the whole
\* milliseconds of the timeout.
Millis(us) == us \div 1000

\* The driver starts the increasing-delay sweep: delay += increment and the
\* first invocation of sr_single_early_stop.
SweepSelect ==
  /\ pc = "menu"
  /\ test' = "SrEarlyStopAllDelays"
  /\ \E i \in Indices : idx' = i
  /\ sweepDelay' = sweepDelay + increment
  /\ increment' = NextIncrement(increment)
  /\ delay' = Millis(sweepDelay')
  /\ pc' = "writeIndex"
  /\ UNCHANGED <<now, end_time, enable, indexReg, dev, ds, w, result, faults,
                 hist, lastObs, cleanupWrites, test_success, outcomes>>
  /\ UNCHANGED storeVars

\* SweepContinues without the break on TooLate.
SweepContinues_NoBreak(r) == ~IsErr(r)

\* Ok(EarlyStopResult::Success) => info!(..): the loop goes on; TooLate and
\* Err break.
SweepContinues(r) == r = "Success"

\* The sweep's match on the controller's result, and the next pass of its
\* loop.  The clock's origin moves to the new invocation.
SweepReport ==
  /\ pc = "returned"
  /\ test = "SrEarlyStopAllDelays"
  /\ outcomes' = Append(outcomes, result)
  /\ IF SweepContinues(result)
     THEN /\ sweepDelay' = sweepDelay + increment
          /\ increment' = NextIncrement(increment)
          /\ delay' = Millis(sweepDelay')
          /\ pc' = "writeIndex"
          /\ now' = 0
          /\ ds' = IF ds.ph = "idle" THEN ds ELSE [ds EXCEPT !.at = @ - now]
          /\ hist' = [p \in Phases |-> NoHist]
          /\ result' = "none"
          /\ end_time' = 0
          /\ UNCHANGED <<enable, cleanupWrites, test_success>>
     ELSE /\ pc' = "done"
          /\ IF IsErr(result)
             THEN /\ test_success' = FALSE
                  /\ enable' = (enable /\ CleanupCoil # ENABLE_COIL_OFFSET)
                  /\ ds' = CoilCleared(CleanupCoil)
                  /\ cleanupWrites' = cleanupWrites + 1
             ELSE UNCHANGED <<enable, ds, cleanupWrites, test_success>>
          /\ UNCHANGED <<now, hist, result, end_time, sweepDelay, increment, delay>>
  /\ UNCHANGED <<test, idx, indexReg, dev, w, faults, lastObs>>
  /\ UNCHANGED storeVars

CtlInit ==
  /\ now = 0
  /\ pc = "menu"
  /\ test = "SrSingle"
  /\ idx = 0
  /\ delay = 0
  /\ end_time = 0
  /\ enable = FALSE
  /\ indexReg = 0
  /\ dev \in Devices
  /\ ds = DevIdle
  /\ w = NoWait
  /\ result = "none"
  /\ faults = 0
  /\ hist = [p \in Phases |-> NoHist]
  /\ lastObs = FALSE
  /\ cleanupWrites = 0
  /\ test_success = TRUE
  /\ sweepDelay = 0
  /\ increment = FirstIncrement
  /\ outcomes = <<>>

\* The program after construction: the controller at the menu, the store
\* as SharedModbusState::new() leaves it.
Init == CtlInit /\ StoreInit

Next ==
  \/ Select
  \/ WriteIndex
  \/ WriteEnable
  \/ WaitCheck
  \/ WaitRead
  \/ WaitSleep
  \/ EarlyStopWrite
  \/ AckWrite
  \/ Settle
  \/ SettleRead
  \/ Report

Spec == Init /\ [][Next]_vars

\* The increasing-delay sweep: its loop around sr_single_early_stop.
SweepNext ==
  \/ SweepSelect
  \/ WriteIndex
  \/ WriteEnable
  \/ WaitCheck
  \/ WaitRead
  \/ WaitSleep
  \/ EarlyStopWrite
  \/ AckWrite
  \/ Settle
  \/ SettleRead
  \/ SweepReport

SweepSpec == Init /\ [][SweepNext]_vars

\* The sweep with its thread running: no step that can be taken is put off
\* forever (every await of the loop returns).
SweepFair == SweepSpec /\ WF_vars(SweepNext)

\* The store serving requests while the controller waits at the menu.
StoreNext ==
  \/ CallReadHoldingRegisters
  \/ CallWriteMultipleRegisters
  \/ CallWriteSingleRegister
  \/ CallReadCoils
  \/ CallWriteMultipleCoils
  \/ CallWriteSingleCoil
  \/ CallOther
  \/ ReadCoil
  \/ write_en_coil
  \/ write_index_hreg
  \/ read_running_input

StoreStart == Init /\ dev = ScenarioDevice

StoreSpec == StoreStart /\ [][StoreNext]_vars

\* The server task and the driver's thread calling the store concurrently.
ConcNext ==
  \/ \E t \in Threads : Begin(t)
  \/ \E t \in Threads : Lock(t)
  \/ \E t \in Threads : Step(t)

ConcSpec == StoreStart /\ [][ConcNext]_vars

\* ================================================================ claims
\* When the device's running signal falls by itself, measured from the
\* moment enable=true took effect (a dead device never runs).
Never == 10 * (StartTimeout + StopTimeout + GraceTimeout)
NatCompletion == IF dev.kind = "dead" THEN Never ELSE dev.startDelay + dev.runTime

Finished == pc \in {"returned", "done"}

\* The device is seen running by a start-wait with the start-timeout as its
\* horizon: it starts at least one polling period before the horizon.
StartsInTime == dev.kind # "dead" /\ dev.startDelay + PollSleep + 2 * MaxLatency <= StartTimeout

\* The device drops running when enable falls.
HonoursStop == dev.kind \in {"edge", "level"}

\* C1 as stated: whenever T_cancel is shorter than the natural completion
\* time, the controller returns EarlyStopped with enable and running false
\* (read in the claim's favour: for a device that starts and honours the
\* stop, without transport failures, T_cancel being shorter by more than the
\* observation latencies).
C1_Original ==
  (Finished /\ Early /\ faults = 0 /\ HonoursStop /\ StartsInTime
     /\ delay + 2 * MaxLatency < NatCompletion)
    => (result = "Success" /\ ~enable /\ ~Running(ds))

\* C1 as amended: when T_cancel precedes the natural completion by more than
\* two observation latencies (one observation is begun at or before T_cancel
\* in the start-wait, one more at the start of a stop-wait whose timeout
\* is zero) and does not exceed the completion-timeout, so that no wait is
\* bounded by its own horizon before T_cancel, the controller returns
\* EarlyStopped, and enable and running are false after the return.
C1_EarlyStopped ==
  (Finished /\ Early /\ faults = 0 /\ HonoursStop /\ StartsInTime
     /\ delay + 2 * MaxLatency < NatCompletion /\ delay <= StopTimeout)
    => (result = "Success" /\ ~enable /\ ~Running(ds) /\ ~lastObs)

\* The stop-wait was cut short at T_cancel and the cancellation succeeded.
C1_Witness ==
  /\ pc = "done" /\ Early /\ faults = 0 /\ HonoursStop /\ StartsInTime
  /\ delay + 2 * MaxLatency < NatCompletion /\ delay <= StopTimeout
  /\ hist["start"].res = "Success" /\ hist["stop"].res = "Timeout"
  /\ hist["grace"].res = "Success" /\ result = "Success"

\* The running pulse is long enough for the poll loop to see it.
PulseSeen == dev.runTime >= PollSleep + 2 * MaxLatency

C3_CleanupAttempted ==
  (pc = "done" /\ IsErr(result)) => cleanupWrites = 1

Horizon(p) == IF p = "start" THEN StartTimeout ELSE StopTimeout

\* C4: a start-wait or stop-wait bounded by its own horizon that returned
\* Timeout ends the invocation with the timeout failure of that phase: no
\* success outcome, no cancellation sequence, no second wait of the phase.
C4_TimedOut ==
  \A p \in {"start", "stop"} :
    /\ hist[p].n <= 1
    /\ (hist[p].res # "none" /\ hist[p].bound = "own") => hist[p].timeout = Horizon(p)
    /\ (hist[p].res = "Timeout" /\ hist[p].bound = "own")
         => /\ Finished
            /\ result = (IF p = "start" THEN "ErrTimeoutStart" ELSE "ErrTimeoutStop")
            /\ hist["grace"].n = 0
            /\ (p = "start" => hist["stop"].n = 0)

\* A cancellation-capable invocation whose stop-wait ran into its own horizon.
C4_Witness ==
  /\ pc = "done" /\ Early /\ hist["stop"].res = "Timeout"
  /\ hist["stop"].bound = "own" /\ result = "ErrTimeoutStop"

\* C5 as stated: Success only for an observation made strictly before the
\* deadline, and Timeout whenever the timeout is zero.
C5_Original ==
  \A p \in Phases :
    /\ hist[p].res = "Success" => hist[p].readAt - hist[p].start < hist[p].timeout
    /\ (hist[p].res # "none" /\ hist[p].timeout = 0) => hist[p].res = "Timeout"

\* C5 as amended: wait_for_running returns Success if and only if one of its
\* observations, each begun no later than the deadline (elapsed <= timeout),
\* equals the target; otherwise it returns Timeout, after the deadline has
\* passed.  An observation begun exactly at the deadline still counts, and
\* so does the first observation of a wait whose timeout is zero.
C5_Reached ==
  \A p \in Phases :
    /\ hist[p].res = "Success"
         => /\ hist[p].hit
            /\ hist[p].readAt >= hist[p].start
            /\ hist[p].readAt - hist[p].start <= hist[p].timeout
    /\ hist[p].res = "Timeout"
         => /\ ~hist[p].hit
            /\ hist[p].ret - hist[p].start > hist[p].timeout

\* A wait returned Success for an observation begun exactly at its deadline.
C5_Witness ==
  \E p \in Phases :
    /\ hist[p].res = "Success" /\ hist[p].hit
    /\ hist[p].readAt - hist[p].start = hist[p].timeout

Waiting == pc \in {"wCheck", "wRead", "wSleep"}

\* One pass of the poll loop: the sleep, its overshoot and one round trip.
PollPeriod == PollSleep + 2 * MaxLatency

\* C6 as stated: no observation is begun once the deadline has been reached,
\* and the wait ends within the deadline plus one pass of the poll loop.
C6_Original ==
  /\ pc = "wRead" => now - w.start < w.timeout
  /\ Waiting => now <= w.start + w.timeout + PollPeriod

\* C6 as amended: no observation is begun after the deadline has passed
\* (elapsed > timeout), but one is still begun when the deadline is reached
\* exactly (elapsed = timeout); the wait is never in progress later than the
\* deadline plus one pass of the poll loop, and returns by then, whatever the
\* running signal does.
C6_Bounded ==
  /\ pc = "wRead" => now - w.start <= w.timeout
  /\ Waiting => now <= w.start + w.timeout + PollPeriod
  /\ \A p \in Phases :
       hist[p].res # "none" => hist[p].ret <= hist[p].start + hist[p].timeout + PollPeriod

\* A wait that returned Timeout more than one sleep after its deadline.
C6_Witness ==
  \E p \in Phases :
    /\ hist[p].res = "Timeout"
    /\ hist[p].ret > hist[p].start + hist[p].timeout + PollSleep

\* C7: without cancellation and without transport failures, sr_single on
\* index 3 against the scenario's device returns Ok, having seen running
\* true in the start-wait, then false in the stop-wait no earlier than 205 ms
\* and no later than one pass of the poll loop after it, then false again
\* after the settle delay.
C7_Completed ==
  (Finished /\ test = "SrSingle" /\ dev = ScenarioDevice /\ faults = 0)
    => /\ result = "Ok"
       /\ indexReg = 3
       /\ hist["start"].res = "Success" /\ hist["start"].target /\ hist["start"].hit
       /\ hist["stop"].res = "Success" /\ ~hist["stop"].target /\ hist["stop"].hit
       /\ hist["stop"].ret >= NatCompletion
       /\ hist["stop"].ret <= NatCompletion + PollPeriod
       /\ ~lastObs /\ ~enable /\ ~Running(ds)
       /\ now >= hist["stop"].ret + SettleDelay

C7_Witness ==
  /\ pc = "done" /\ test = "SrSingle" /\ dev = ScenarioDevice /\ faults = 0
  /\ idx = 3 /\ result = "Ok" /\ test_success


\* The addresses the last request names: addr, addr + 1, .. as integers.
ReqAddrs == {req.addr + i : i \in 0..(req.cnt - 1)}

RegOps == {"ReadHoldingRegisters", "WriteMultipleRegisters", "WriteSingleRegister"}

CoilReads == {"read_coil", "ReadCoils"}

CoilWrites == {"WriteSingleCoil", "WriteMultipleCoils"}

\* The last request named a register address that is not mapped.
UnmappedReg == \E a \in ReqAddrs : a < Modulus /\ a \notin DOMAIN prevRegs

\* C8 as stated: a register read or write naming an address that is not in
\* the register namespace fails with an addressing error: the handler does
\* not answer it with a success response.
C8_AddressingError ==
  (req.op \in RegOps /\ UnmappedReg) => resp.status # "Ok"

\* C9 as stated: a multi-register write whose range contains an unmapped
\* address leaves every register unchanged, and a multi-register read over
\* such a range returns no partial result.
C9_AllOrNothing ==
  /\ (req.op = "WriteMultipleRegisters" /\ UnmappedReg)
       => holding_registers = prevRegs
  /\ (req.op = "ReadHoldingRegisters" /\ UnmappedReg)
       => resp.values = <<>>

\* C10 as stated: no coil operation fails; a coil read returns, per element,
\* the mapped value or false for an unmapped address; a coil write creates no
\* address, writes the mapped elements of its range and leaves every coil
\* outside its range as it was.
C10_CoilDefault ==
  /\ req.op \in CoilReads \cup CoilWrites
       => resp.status = "Ok" /\ DOMAIN coils = DOMAIN prevCoils
  /\ (req.op \in CoilReads /\ resp.status = "Ok")
       => /\ Len(resp.values) = req.cnt
          /\ \A i \in 1..req.cnt :
               resp.values[i] = read_coil(prevCoils, req.addr + i - 1)
  /\ (req.op \in CoilWrites /\ resp.status = "Ok")
       => \A a \in DOMAIN coils :
            coils[a] = IF a \in ReqAddrs THEN req.values[a - req.addr + 1]
                       ELSE prevCoils[a]


\* What a read call returns when it reads the contents m in one piece.
ReadOf(m, s) ==
  [k \in 1..Len(s.values) |->
     LET a == ElemAddr(s.addr, k - 1) IN
     IF a \in DOMAIN m THEN m[a] ELSE IF NsOf(s.op) = "coils" THEN FALSE ELSE 0]

\* C11: a multi-address read that returned has read the namespace as one
\* write call (or none) left it: the contents it found when it took the mutex
\* were those left by the last write call that returned (no write call was
\* part-way through), and every element it returns is read from them.
C11_Atomic ==
  \A t \in Threads :
    (thr[t].pc = "done" /\ ~IsWrite(thr[t].op))
      => thr[t].clean /\ thr[t].acc = ReadOf(thr[t].snap, thr[t])

\* A read of both mapped coils that waited for a write of both to finish and
\* returned all of its elements.
C11_Witness ==
  \E t \in Threads :
    /\ thr[t].pc = "done" /\ thr[t].op = "read_coils" /\ thr[t].waited
    /\ thr[t].addr = ENABLE_COIL_OFFSET /\ thr[t].acc = <<TRUE, TRUE>>
    /\ committed["coils"] = thr[t].snap


Sweep == test = "SrEarlyStopAllDelays"

\* An invocation of the sweep has been issued and its result not yet matched.
SweepInvoked == Sweep /\ pc \notin {"menu", "done"}

\* The passes of the sweep's loop until its delay exceeds limit microseconds.
RECURSIVE PassesUntil(_, _, _)
PassesUntil(d, inc, limit) ==
  IF d + inc > limit THEN 1
  ELSE 1 + PassesUntil(d + inc, NextIncrement(inc), limit)

\* From this pass on both waits are bounded by their own horizons, so that
\* no invocation can end EarlyStopped.
SweepBound ==
  PassesUntil(0, FirstIncrement, 1000 * (StartTimeout + StopTimeout + PollPeriod))

\* C12 as stated: the sweep issues no invocation after one that ended
\* TooLate, in error, or EarlyStopped.
C12_Original ==
  SweepInvoked =>
    \A k \in 1..Len(outcomes) :
      outcomes[k] \notin {"TooLate", "Success"} /\ ~IsErr(outcomes[k])

\* The safety half of C12 as amended: every invocation before the current
\* one ended EarlyStopped; the sweep has ended only after an invocation that
\* ended TooLate or in error; it issues at most SweepBound invocations.
C12_Stops ==
  /\ SweepInvoked => \A k \in 1..Len(outcomes) : outcomes[k] = "Success"
  /\ (Sweep /\ pc = "done")
       => /\ Len(outcomes) >= 1
          /\ outcomes[Len(outcomes)] = "TooLate" \/ IsErr(outcomes[Len(outcomes)])
          /\ \A k \in 1..(Len(outcomes) - 1) : outcomes[k] = "Success"
  /\ Len(outcomes) <= SweepBound

\* C12 as amended: the sweep goes on after an invocation that ended
\* EarlyStopped and stops at the first invocation that ends TooLate or in
\* error; for every device behaviour it ends, after at most SweepBound
\* invocations.
C12_Terminates == [](pc # "menu" => C12_Stops) /\ <>(pc = "done")

\* The sweep ended TooLate after invocations that ended EarlyStopped.
C12_Witness ==
  /\ Sweep /\ pc = "done" /\ result = "TooLate"
  /\ Len(outcomes) >= 3 /\ outcomes[1] = "Success" /\ outcomes[2] = "Success"


\* The sweep's delay (microseconds) in its k-th pass, from delay d and
\* increment inc before the first.
RECURSIVE SweepDelayAt(_, _, _)
SweepDelayAt(k, d, inc) ==
  IF k = 1 THEN d + inc ELSE SweepDelayAt(k - 1, d + inc, NextIncrement(inc))

\* The device whose subroutine runs for 50 ms.
Device50 ==
  [kind |-> "edge", startDelay |-> 5, runTime |-> 50, stopDelay |-> 5, jitter |-> TRUE]

\* The first pass of the sweep whose delay is at least ms milliseconds.
RECURSIVE FirstPassAtLeast(_, _)
FirstPassAtLeast(ms, k) ==
  IF SweepDelayAt(k, 0, FirstIncrement) >= 1000 * ms THEN k
  ELSE FirstPassAtLeast(ms, k + 1)

\* C13: against the subroutine that runs 50 ms, without transport failures,
\* every pass of the sweep whose delay is below 50 ms ends EarlyStopped, the
\* first pass whose delay is at least 50 ms ends TooLate, and the sweep ends
\* there.
C13_Sweep50 ==
  (Sweep /\ dev = Device50 /\ faults = 0)
    => /\ Len(outcomes) <= FirstPassAtLeast(Device50.runTime, 1)
       /\ \A k \in 1..Len(outcomes) :
            outcomes[k] = IF SweepDelayAt(k, 0, FirstIncrement) >= 1000 * Device50.runTime
                          THEN "TooLate" ELSE "Success"
       /\ pc = "done"
            => /\ result = "TooLate" /\ test_success
               /\ Len(outcomes) = FirstPassAtLeast(Device50.runTime, 1)

\* The sweep against the 50 ms subroutine ended TooLate in its ninth pass,
\* the first with a delay (87 ms) of at least 50 ms.
C13_Witness ==
  /\ Sweep /\ dev = Device50 /\ faults = 0 /\ pc = "done"
  /\ Len(outcomes) = 9 /\ outcomes[8] = "Success" /\ outcomes[9] = "TooLate"
  /\ delay = 87


\* C14 as stated: the controller's enable, running and index addresses are
\* those the simulated peripheral pre-seeds and serves: the controller's
\* index write and enable write change the stored index register and enable
\* coil, and its running read returns the stored running signal.
C14_SameAddresses ==
  /\ (req.op = "write_en_coil" /\ resp.status = "Ok")
       => coils[ENABLE_COIL_OFFSET] = req.values[1]
  /\ (req.op = "write_index_hreg" /\ resp.status = "Ok")
       => holding_registers[INDEX_HREG_OFFSET] = req.values[1]
  /\ (req.op = "read_running_input" /\ ~coilsPoisoned)
       => resp.status = "Ok" /\ resp.values = <<coils[RUNNING_COIL_OFFSET]>>


\* C15: in every step of the controller and of the driver the device is
\* where its own behaviour puts it, given the time that passed and what was
\* written to enable: the running signal changes only as the device changes
\* it, never by a write of the controller or of the driver's error path.
C15_RunningByDevice ==
  [][ds' = OnEnable(Evolve(ds, now', enable), enable, enable', now')]_vars

\* The driver's error path has written enable=false while the device was
\* running, and running is still as the device has it.
C15_Witness ==
  /\ pc = "done" /\ IsErr(result) /\ cleanupWrites = 1 /\ ~enable /\ Running(ds)


\* C16: enable is written true only after the index write of the invocation
\* succeeded (the index register then holds the invocation's index); an
\* invocation whose index write failed has ended in failure after that one
\* transport call: enable was never written and no wait was entered.
C16_IndexFirst ==
  (test \in {"SrSingle", "SrOutOfBounds", "SrEarlyStopWithDelay"} /\ pc # "menu")
    => /\ pc = "writeEnable" => indexReg = idx
       /\ (enable \/ \E p \in Phases : hist[p].n > 0 \/ w.phase # "none")
            => indexReg = idx
       /\ (indexReg # idx /\ pc # "writeIndex")
            => /\ Finished /\ result = "ErrTransport" /\ faults = 1
               /\ ~enable /\ now = 0

\* An invocation whose index write failed ended in failure, enable false.
C16_Witness ==
  /\ pc = "done" /\ result = "ErrTransport" /\ indexReg # idx /\ ~enable
  /\ ~test_success


\* C17: the cancellation sequence writes enable=false before its grace wait,
\* the grace wait polls for running=false with the 1 s grace timeout, and an
\* invocation whose grace wait timed out returns the grace failure; it
\* returns EarlyStopped only when a read begun within the grace period
\* observed running=false.
C17_GraceFailure ==
  /\ w.phase = "grace"
       => ~enable /\ w.target = FALSE /\ w.timeout = GraceTimeout
  /\ hist["grace"].n > 0
       => /\ hist["grace"].target = FALSE
          /\ hist["grace"].timeout = GraceTimeout
          /\ hist["grace"].n = 1
  /\ (Finished /\ hist["grace"].n > 0 /\ hist["grace"].res = "Timeout")
       => result = "ErrGrace"
  /\ (Finished /\ result = "Success")
       => /\ hist["grace"].res = "Success"
          /\ hist["grace"].hit
          /\ hist["grace"].readAt - hist["grace"].start <= GraceTimeout
  /\ (Finished /\ result = "TooLate") => hist["grace"].n = 0

\* The device ignored the stop: the grace wait timed out while it ran on.
C17_Witness ==
  /\ pc = "done" /\ result = "ErrGrace" /\ hist["grace"].res = "Timeout"
  /\ hist["grace"].ret - hist["grace"].start > GraceTimeout
  /\ ~enable /\ Running(ds)


\* C18: the acknowledgment (enable=false), the settle delay and the re-read
\* follow a stop-wait that observed running=false; the invocation returns
\* Completed or TooLate only when that re-read, made at least the settle
\* delay after the stop-wait returned, gave false, and returns the
\* still-running failure when it gave true.
C18_SettleCheck ==
  /\ pc \in {"ackWrite", "settle", "settleRead"}
       => hist["stop"].res = "Success" /\ hist["stop"].hit
  /\ pc \in {"settle", "settleRead"} => ~enable
  /\ pc = "settleRead" => now - hist["stop"].ret >= SettleDelay
  /\ (Finished /\ result \in {"Ok", "TooLate"})
       => /\ ~lastObs /\ ~enable
          /\ hist["stop"].res = "Success"
          /\ now - hist["stop"].ret >= SettleDelay
  /\ (Finished /\ result = "ErrStillRunning")
       => /\ lastObs
          /\ hist["stop"].res = "Success"
          /\ now - hist["stop"].ret >= SettleDelay

\* The device restarted after the acknowledgment: the re-read gave true.
C18_Witness ==
  /\ pc = "done" /\ result = "ErrStillRunning" /\ lastObs
  /\ hist["stop"].res = "Success" /\ now - hist["stop"].ret >= SettleDelay


\* The wait's own horizon.
OwnHorizon(p) == IF p = "start" THEN StartTimeout ELSE StopTimeout

\* A wait of phase p entered as r (start, bound, timeout) follows the race:
\* its own horizon when that elapses strictly before end_time, and the time
\* left until end_time (none when end_time has passed) otherwise.
RaceDecided(p, r) ==
  IF r.start + OwnHorizon(p) < end_time
  THEN r.bound = "own" /\ r.timeout = OwnHorizon(p)
  ELSE /\ r.bound = "cancel"
       /\ r.start + r.timeout = IF end_time > r.start THEN end_time ELSE r.start

\* The cancellation sequence has been entered, and nothing else returned.
Cancelling ==
  \/ pc = "esWrite"
  \/ w.phase = "grace"
  \/ Finished /\ hist["grace"].n = 1 /\ result \in {"Success", "ErrGrace", "ErrTransport"}
  \/ Finished /\ hist["grace"].n = 0 /\ result = "ErrTransport"

\* C19: in a cancellation-capable invocation each of the start-wait and the
\* stop-wait polls until its own horizon when that horizon elapses strictly
\* before T_cancel and until T_cancel otherwise, equality included; a
\* timeout of the first kind ends the invocation with the timeout failure,
\* one of the second kind enters the cancellation sequence.
C19_DeadlineRace ==
  (test = "SrEarlyStopWithDelay" /\ pc # "menu")
    => \A p \in {"start", "stop"} :
         /\ w.phase = p => RaceDecided(p, w)
         /\ hist[p].n > 0 => RaceDecided(p, hist[p])
         /\ (hist[p].n > 0 /\ hist[p].res = "Timeout")
              => IF hist[p].bound = "own"
                 THEN /\ Finished /\ hist["grace"].n = 0
                      /\ result = IF p = "start" THEN "ErrTimeoutStart"
                                                 ELSE "ErrTimeoutStop"
                 ELSE Cancelling

\* The start horizon and T_cancel coincide: the start-wait ran until
\* T_cancel, timed out and the invocation was cancelled.
C19_Witness ==
  /\ test = "SrEarlyStopWithDelay" /\ pc = "done" /\ result = "Success"
  /\ hist["start"].start + StartTimeout = end_time
  /\ hist["start"].bound = "cancel" /\ hist["start"].res = "Timeout"
  /\ hist["grace"].res = "Success"


\* The wait that was cut short at the cancellation deadline.
CutShort(p) == hist[p].n > 0 /\ hist[p].res = "Timeout" /\ hist[p].bound = "cancel"

\* T_cancel is end_time, fixed when the enable=true write returned.
CancelInstantFixed ==
  (w.phase # "none" \/ pc = "esWrite" \/ hist["start"].n > 0) => end_time = delay

\* C20 as stated: T_cancel is computed once; the enable=false write of the
\* cancellation sequence is issued no earlier than T_cancel and no later
\* than one pass of the poll loop (one sleep and one observation) after it,
\* also when T_cancel had passed when the wait began.
C20_Original ==
  test = "SrEarlyStopWithDelay"
    => /\ CancelInstantFixed
       /\ pc = "esWrite" => now >= end_time /\ now <= end_time + PollPeriod

\* C20 as amended: T_cancel is computed once; the enable=false write of the
\* cancellation sequence is issued no earlier than T_cancel and no later
\* than one pass of the poll loop after the later of T_cancel and the begin
\* of the wait it cuts short; that wait begins at most one observation after
\* T_cancel, and the write has returned one round trip later.
C20_CancelTime ==
  test = "SrEarlyStopWithDelay"
    => /\ CancelInstantFixed
       /\ pc = "esWrite"
            => /\ now >= end_time
               /\ now <= end_time + MaxLatency + PollPeriod
               /\ \A p \in {"start", "stop"} :
                    (CutShort(p) /\ hist[p].ret = now)
                      => /\ hist[p].start <= end_time + MaxLatency
                         /\ now <= (IF hist[p].start > end_time
                                    THEN hist[p].start ELSE end_time) + PollPeriod
       /\ (w.phase = "grace" \/ hist["grace"].n > 0)
            => LET g == IF w.phase = "grace" THEN w.start ELSE hist["grace"].start
               IN  g >= end_time /\ g <= end_time + 2 * MaxLatency + PollPeriod

\* T_cancel had passed when the stop-wait began: the write was issued more
\* than one pass of the poll loop after T_cancel.
C20_Witness ==
  /\ test = "SrEarlyStopWithDelay" /\ pc = "esWrite"
  /\ CutShort("stop") /\ hist["stop"].start > end_time
  /\ now > end_time + PollPeriod


\* The device's first running interval, begun startDelay after enable was
\* asserted, ends inside the horizon of the start-wait that returned.
PulseInsideHorizon ==
  /\ dev.kind # "dead"
  /\ hist["start"].n > 0
  /\ dev.startDelay + dev.runTime <= hist["start"].timeout

\* C21 as stated: a start-wait during whose horizon running was true for some
\* interval, however short, returns Success and not Timeout.
C21_Original ==
  PulseInsideHorizon => hist["start"].res = "Success"

\* C21 as amended: a start-wait during whose horizon running was true for at
\* least one pass of the poll loop (the sleep, its overshoot and one
\* observation round trip) returns Success; a shorter interval can fall
\* between two observations.
C21_Seen ==
  (PulseInsideHorizon /\ PulseSeen) => hist["start"].res = "Success"

\* A 50 ms pulse inside the horizon was seen, not by the first observation.
C21_Witness ==
  /\ PulseInsideHorizon /\ PulseSeen /\ dev.runTime < 10 * PollSleep
  /\ hist["start"].res = "Success" /\ hist["start"].readAt > hist["start"].start


\* C22: a failed observation inside wait_for_running ends the wait and the
\* invocation in the same step with the transport failure, and once the
\* controller has returned no wait is entered, no observation is made and no
\* time is spent sleeping.
C22_FailFast ==
  [][/\ (pc = "wRead" /\ faults' = faults + 1)
          => /\ pc' = "returned" /\ result' = "ErrTransport"
             /\ w' = NoWait /\ hist' = hist /\ lastObs' = lastObs
     /\ Finished
          => /\ pc' \in {"returned", "done"} /\ result' = result
             /\ w' = NoWait /\ hist' = hist /\ lastObs' = lastObs
             /\ now' = now /\ faults' = faults]_vars

\* An observation failed in the stop-wait: the invocation ended without the
\* stop-wait returning and without any later wait.
C22_Witness ==
  /\ pc = "done" /\ result = "ErrTransport" /\ faults = 1
  /\ hist["start"].res = "Success" /\ hist["stop"].n = 0 /\ hist["grace"].n = 0
  /\ w = NoWait /\ ~test_success


\* The namespaces whose mutex thread t holds.
Held(t) == {ns \in Namespaces : holder[ns] = t}

\* Thread t waits for a mutex that another thread holds.
Blocked(t) == thr[t].pc = "lock" /\ holder[NsOf(thr[t].op)] # "free"

\* C23: in every interleaving of the two store callers a thread holds a
\* namespace's mutex only inside its call on that namespace, so never the
\* two mutexes together and none while it acquires one; a thread that waits
\* for a mutex waits for a thread that is running its loop, so the two never
\* wait for each other.
C23_NoNestedLocks ==
  \A t \in Threads :
    /\ Cardinality(Held(t)) <= 1
    /\ \A ns \in Held(t) : thr[t].pc = "loop" /\ NsOf(thr[t].op) = ns
    /\ thr[t].pc = "lock" => Held(t) = {}
    /\ Blocked(t)
         => LET u == holder[NsOf(thr[t].op)]
            IN  /\ u \in Threads \ {t}
                /\ thr[u].pc = "loop" /\ thr[u].i < Len(thr[u].values)
                /\ ~Blocked(u)

\* Both mutexes are held at once, by different threads, one of which has
\* completed a call on the other namespace before.
C23_Witness ==
  /\ holder["coils"] = "handler" /\ holder["regs"] = "controller"
  /\ thr["handler"].pc = "loop" /\ thr["controller"].pc = "loop"
  /\ committed["regs"] # (INDEX_HREG_OFFSET :> 0)


\* C24 as stated: in every pass of the sweep the amount added to the delay
\* is at most the ceiling max_inc (2 s), and the delay is strictly larger
\* than in the pass before.
C24_Capped ==
  [][sweepDelay' # sweepDelay
       => /\ sweepDelay' > sweepDelay
          /\ sweepDelay' - sweepDelay <= MaxIncrement]_vars


\* The controller returned one of its success outcomes.
Succeeded == Finished /\ result \in {"Ok", "TooLate", "Success"}

\* C25: whenever the controller has returned Ok, TooLate or Success
\* (EarlyStopped), the last value it wrote to enable is false and its last
\* observation of running is false.
C25_SuccessIdle ==
  Succeeded => ~enable /\ ~lastObs

\* The controller returns a success after enable had been asserted and
\* running had been seen true.
C25_Witness ==
  /\ pc = "returned" /\ Succeeded /\ ~enable /\ ~lastObs
  /\ hist["start"].res = "Success" /\ hist["start"].hit


\* The handler's requests served by the multi-address store operations.
MultiOps == {"ReadCoils", "WriteMultipleCoils", "ReadHoldingRegisters",
             "WriteMultipleRegisters"}

\* C26 as stated: for every start address and count the multi-address
\* operations complete normally and leave both mutexes usable, and the
\* element addresses stay in 0..65535: a write changes no address outside
\* the range addr .. addr + count - 1 it was given.
C26_NoOverflow ==
  /\ ~coilsPoisoned /\ ~regsPoisoned
  /\ req.op \in MultiOps => resp.status = "Ok"
  /\ (req.op = "WriteMultipleCoils" /\ resp.status = "Ok")
       => \A a \in DOMAIN coils \ ReqAddrs : coils[a] = prevCoils[a]
  /\ (req.op = "WriteMultipleRegisters" /\ resp.status = "Ok")
       => \A a \in DOMAIN holding_registers \ ReqAddrs :
            holding_registers[a] = prevRegs[a]

====
